---- MODULE Spec2Model ----
(***************************************************************************)
(* FocusVault: the useApiCache hook (frontend/src/hooks/useApiCache.js)    *)
(* and the StudyProvider coordinator (context/StudyContext), modelled as   *)
(* a state machine of the React event loop: every action is one task of    *)
(* the loop (an effect run, a promise continuation, a user call).          *)
(***************************************************************************)
EXTENDS Integers, FiniteSets, Sequences, TLC

\* ------------------------------------------------------------------ bounds
MaxPending == 2        \* fetcher invocations awaiting settlement at once
MaxCalls == 2          \* endSession / startStudySession calls in flight at once
MaxReads == 2          \* calls in flight at once of each uncached read
StartTime == 1000000   \* Date.now() when the page is loaded
MaxLen == 3            \* timetables in a response
MaxId == 2             \* distinct timetables
MaxSends == 2          \* verification emails sent
MaxRecords == 2        \* completed-session records created for one session

\* --------------------------------------------------------------- constants
CACHE_DURATION == 5 * 60 * 1000
RATE_LIMIT == 2000
COOLDOWN == 60
SECOND == 1000

NULL == "null"
NONE == "none"
Keys == {"dashboard", "timetables"}
Consumers == {"h1", "h2"}
Values == {"v1", "v2"}
\* The keys an instance is rendered with: h1's key prop changes, h2's is fixed.
KeysOf(c) == IF c = "h1" THEN Keys ELSE {"dashboard"}
\* what GET /api/study/sessions/today and GET /api/study/notes answer
Lists == {"[]", "list"}
\* err.name of the rejections a fetcher can produce
ABORT_ERROR == "AbortError"
CANCELED_ERROR == "CanceledError"
ERROR == "Error"
\* how an async function's promise settles: fulfilled with undefined, or rejected
UNDEFINED == "undefined"
REJECTED == "rejected"
CallIds == 1..MaxCalls

\* The instants at which the event loop runs a task: Date.now() is sampled at
\* the boundaries of the window the specification is about (5 minutes for the
\* cache, 2000 ms for the coordinator's refresh).
CacheInstants ==
  { StartTime, StartTime + (CACHE_DURATION - 1), StartTime + CACHE_DURATION }
StudyInstants ==
  { StartTime, StartTime + (RATE_LIMIT - 1), StartTime + RATE_LIMIT }

\* A fetcher invocation awaiting settlement: the instance that issued it (NONE
\* once that instance is unmounted), the key of its closure, whether its
\* AbortController was aborted, and whether abortControllerRef.current of its
\* instance is still its controller.
Owners == Consumers \cup {NONE}
Requests == [owner : Owners, key : Keys, aborted : BOOLEAN, cur : BOOLEAN]

VARIABLES
  now,            \* Date.now()
  cache,          \* the module-level Map: key -> entry or NoEntry
  hook,           \* per useApiCache instance: mounted, key, data, loading, error
  inflight,       \* per instance: the pending invocation whose controller is
                  \* abortControllerRef.current (key, aborted), or NoReq
  stale,          \* the other pending invocations, all aborted: (owner, key) -> how many
  lastFetch,      \* StudyProvider state
  currentSession, \* StudyProvider state
  isStudying,     \* StudyProvider state
  loadingNotes,   \* StudyProvider state
  completedSubjects, \* studyData.completedSubjects
  notes,          \* studyData.notes
  provider,       \* whether StudyProvider is mounted
  server,         \* the record behind /api/study/state, or NoSession
  calls,          \* in-flight startStudySession / endSession calls and their closures
  notesInFlight,  \* fetchNotes calls awaiting axios.get
  completedInFlight, \* fetchCompletedSubjects calls awaiting axios.get
  currentInFlight, \* fetchCurrentSession calls awaiting axios.get
  timetablesData, \* data of the useApiCache('timetables') instance as a list
  timetables,     \* studyData.timetables
  activeTimetable, \* studyData.activeTimetable
  timetablesEffect, \* whether the effect on [timetablesData] is due to run
  notesView,      \* NotesView: mounted, loading, searchTerm, debouncedSearchTerm,
                  \* and the search whose result is in notes (NONE: the initial [])
  notesGets,      \* NotesView: search -> its GETs of /api/study/notes in flight
  email,          \* EmailVerification: countdown, isResending, the resend
                  \* requests in flight, and the verification emails sent so far
  app,            \* App: what useAuth gives (loading, user, user.emailVerified),
                  \* the location, and the element rendered for it
  records,        \* completed-session records created (POST /api/study/sessions
                  \* answered with success) since the session was started
  result,         \* how the promise of the coordinator operation that settled
                  \* last was settled: its value, or REJECTED
  dirty,          \* history: keys invalidated and not read since
  last            \* history: the task the event loop ran last

vars == << now, cache, hook, inflight, stale, lastFetch, currentSession, isStudying,
           loadingNotes, completedSubjects, notes, provider, server, calls,
           notesInFlight, completedInFlight, currentInFlight, result, dirty, last,
           timetablesData, timetables, activeTimetable, timetablesEffect,
           notesView, notesGets, email, app, records >>

cacheVars == << cache, hook, inflight, stale, dirty >>
studyVars == << lastFetch, currentSession, isStudying, loadingNotes,
                completedSubjects, notes, provider, server, calls, notesInFlight,
                completedInFlight, currentInFlight, result, records >>

timetableVars == << timetablesData, timetables, activeTimetable, timetablesEffect >>
notesViewVars == << notesView, notesGets >>
viewVars == << timetableVars, notesViewVars, email, app >>

NoEntry == [data |-> NULL, timestamp |-> 0 - 1]

\* useState(null), useState(true), useState(null); of is history: the key
\* of the fetchData closure that set data
InitHook == [mounted |-> FALSE, key |-> NONE, data |-> NULL, loading |-> TRUE,
             error |-> NULL, of |-> NONE]

\* currentSession null / no record behind /api/study/state
NoSession == [currentSubject |-> NONE, status |-> NONE]

NoReq == [key |-> NONE, aborted |-> FALSE]

\* A call slot: the operation, the await it is suspended at, and what its
\* closure captured (currentSession, and lastFetch through
\* fetchDashboardAndTimetables) or was passed (subject).
IdleCall == [op |-> "idle", pc |-> "idle", cs |-> NoSession, lf |-> 0, subject |-> NONE]


\* A timetable of the list GET /api/study/timetables answers with.
Timetables == [id : 1..MaxId, isActive : BOOLEAN]
\* activeTimetable: null in the initial studyData, undefined from find
NullTimetable == [id |-> 0 - 1, isActive |-> FALSE]
UndefinedTimetable == [id |-> 0, isActive |-> FALSE]
\* data === null of the timetables instance before its first result
NoList == << NullTimetable >>
TimetableLists == UNION { [1..n -> Timetables] : n \in 0..MaxLen }

\* what the user types into the search box of NotesView
Searches == {"", "a", "b"}
\* NotesView before its first render: useState([]), useState(''), useState(false)
NoNotesView == [mounted |-> FALSE, loading |-> FALSE, search |-> "",
                debounced |-> NONE, notes |-> NONE]

Init ==
  /\ now = StartTime
  /\ cache = [k \in Keys |-> NoEntry]
  /\ hook = [c \in Consumers |-> InitHook]
  /\ inflight = [c \in Consumers |-> NoReq]
  /\ stale = [p \in Owners \X Keys |-> 0]
  /\ lastFetch = 0
  /\ currentSession = NoSession
  /\ isStudying = FALSE
  /\ loadingNotes = FALSE
  /\ completedSubjects = "[]"
  /\ notes = "[]"
  /\ provider = FALSE
  /\ server = NoSession
  /\ calls = [i \in CallIds |-> IdleCall]
  /\ notesInFlight = 0
  /\ completedInFlight = 0
  /\ currentInFlight = 0
  /\ result = NONE
  /\ records = 0
  /\ timetablesData = NoList
  /\ timetables = << >>
  /\ activeTimetable = NullTimetable
  /\ timetablesEffect = TRUE
  /\ notesView = NoNotesView
  /\ notesGets = [q \in Searches |-> 0]
  /\ email = [countdown |-> 0, isResending |-> FALSE, inflight |-> 0, sent |-> 0]
  /\ app = [loading |-> TRUE, user |-> FALSE, emailVerified |-> UNDEFINED,
            path |-> "/", element |-> "LoadingScreen"]
  /\ dirty = {}
  /\ last = "init"

\* ------------------------------------------------------------ useApiCache

\* How many invocations like x await settlement.
Count(x) ==
  IF x.cur
  THEN IF x.owner # NONE /\ inflight[x.owner] = [key |-> x.key, aborted |-> x.aborted]
       THEN 1 ELSE 0
  ELSE IF x.aborted THEN stale[<<x.owner, x.key>>] ELSE 0

StaleOf(o) == stale[<<o, "dashboard">>] + stale[<<o, "timetables">>]

NumPending ==
  Cardinality({c \in Consumers : inflight[c] # NoReq})
  + StaleOf("h1") + StaleOf("h2") + StaleOf(NONE)

\* The age test with the comparison inverted.
Live_Inverted(entry, t) == entry # NoEntry /\ t - entry.timestamp > CACHE_DURATION

\* The age test with <= for <: an entry exactly CACHE_DURATION old is live.
Live_Inclusive(entry, t) == entry # NoEntry /\ t - entry.timestamp <= CACHE_DURATION

\* cached && Date.now() - cached.timestamp < CACHE_DURATION
Live(entry, t) == entry # NoEntry /\ t - entry.timestamp < CACHE_DURATION

\* if (abortControllerRef.current) abortControllerRef.current.abort()
AbortRef(fl, c) ==
  IF fl[c] # NoReq THEN [fl EXCEPT ![c].aborted = TRUE] ELSE fl

\* fetchData up to its first await, run for instance c (state h) and key k, the
\* instance's current invocation being fl[c]: the new instance state and
\* invocations. On a miss the previous controller is aborted and replaced
\* (abortControllerRef.current = new AbortController()) and fetcher is called.
FetchData(h, fl, st, c, k) ==
  IF Live(cache[k], now)
  THEN [h |-> [h EXCEPT !.data = cache[k].data, !.loading = FALSE, !.of = k],
        fl |-> fl, st |-> st, hit |-> TRUE]
  ELSE [h |-> [h EXCEPT !.loading = TRUE, !.error = NULL],
        fl |-> [fl EXCEPT ![c] = [key |-> k, aborted |-> FALSE]],
        st |-> IF fl[c] # NoReq
               THEN [st EXCEPT ![<<c, fl[c].key>>] = @ + 1] ELSE st,
        hit |-> FALSE]

CanFetch(k) == Live(cache[k], now) \/ NumPending < MaxPending

\* First render of a useApiCache(k, fetcher) instance and its effect.
Mount(c, k) ==
  /\ ~hook[c].mounted
  /\ CanFetch(k)
  /\ LET f == FetchData([InitHook EXCEPT !.mounted = TRUE, !.key = k], inflight, stale, c, k)
     IN /\ hook' = [hook EXCEPT ![c] = f.h]
        /\ inflight' = f.fl
        /\ stale' = f.st
        /\ last' = (IF f.hit THEN "hit" ELSE "miss")
  /\ dirty' = dirty \ {k}
  /\ UNCHANGED << now, cache >>
  /\ UNCHANGED studyVars
  /\ UNCHANGED viewVars

\* key or a dependency changed: the effect's cleanup, then the effect again.
Rerun(c, k) ==
  /\ hook[c].mounted
  /\ CanFetch(k)
  /\ LET f == FetchData([hook[c] EXCEPT !.key = k], AbortRef(inflight, c), stale,
                        c, k)
     IN /\ hook' = [hook EXCEPT ![c] = f.h]
        /\ inflight' = f.fl
        /\ stale' = f.st
        /\ last' = (IF f.hit THEN "hit" ELSE "miss")
  /\ dirty' = dirty \ {k}
  /\ UNCHANGED << now, cache >>
  /\ UNCHANGED studyVars
  /\ UNCHANGED viewVars

\* The instance is torn down: the cleanup aborts; later setState calls of its
\* invocations are no-ops (owner NONE).
Unmount(c) ==
  /\ hook[c].mounted
  /\ stale' = [p \in Owners \X Keys |->
                 IF p[1] = c THEN 0
                 ELSE IF p[1] = NONE
                 THEN stale[p] + stale[<<c, p[2]>>]
                      + (IF inflight[c].key = p[2] THEN 1 ELSE 0)
                 ELSE stale[p]]
  /\ inflight' = [inflight EXCEPT ![c] = NoReq]
  /\ hook' = [hook EXCEPT ![c] = InitHook]
  /\ last' = "unmount"
  /\ UNCHANGED << now, cache, dirty >>
  /\ UNCHANGED studyVars
  /\ UNCHANGED viewVars

\* What a fetcher given the signal of invocation x can settle with. The hook
\* takes any fetcher: one that rejects with an AbortError once the signal is
\* aborted (fetch), or that does not look at the signal and settles as if it
\* were not aborted.
Outcomes(x) ==
  IF x.aborted THEN Values \cup {ABORT_ERROR, ERROR} ELSE Values \cup {ERROR}

\* setState of the instance that issued the invocation, if still mounted
SetOwner(hk, o, h) == IF o = NONE THEN hk ELSE [hk EXCEPT ![o] = h]

\* The continuation with a catch block that also clears data.
Complete_ClearOnError(x, out) ==
  /\ Count(x) > 0
  /\ LET o == x.owner
         k == x.key
         h == IF o = NONE THEN InitHook ELSE hook[o]
     IN IF out \in Values
        THEN /\ cache' = [cache EXCEPT ![k] = [data |-> out, timestamp |-> now]]
             /\ hook' = SetOwner(hook, o, [h EXCEPT !.data = out, !.loading = FALSE,
                                                    !.of = k])
        ELSE /\ cache' = cache
             /\ hook' = SetOwner(hook, o,
                   IF out # ABORT_ERROR
                   THEN [h EXCEPT !.error = out, !.data = NULL, !.of = NONE,
                                  !.loading = FALSE]
                   ELSE [h EXCEPT !.loading = FALSE])
  /\ IF x.cur
     THEN inflight' = [inflight EXCEPT ![x.owner] = NoReq] /\ stale' = stale
     ELSE stale' = [stale EXCEPT ![<<x.owner, x.key>>] = @ - 1] /\ inflight' = inflight
  /\ last' = "complete"
  /\ UNCHANGED << now, dirty >>
  /\ UNCHANGED studyVars
  /\ UNCHANGED viewVars

\* The continuation of fetchData after await fetcher(signal).
Complete(x, out) ==
  /\ Count(x) > 0
  /\ LET o == x.owner
         k == x.key
         h == IF o = NONE THEN InitHook ELSE hook[o]
     IN IF out \in Values
        THEN /\ cache' = [cache EXCEPT ![k] = [data |-> out, timestamp |-> now]]
             /\ hook' = SetOwner(hook, o, [h EXCEPT !.data = out, !.loading = FALSE,
                                                    !.of = k])
        ELSE /\ cache' = cache
             /\ hook' = SetOwner(hook, o,
                   IF out # ABORT_ERROR
                   THEN [h EXCEPT !.error = out, !.loading = FALSE]
                   ELSE [h EXCEPT !.loading = FALSE])
  /\ IF x.cur
     THEN inflight' = [inflight EXCEPT ![x.owner] = NoReq] /\ stale' = stale
     ELSE stale' = [stale EXCEPT ![<<x.owner, x.key>>] = @ - 1] /\ inflight' = inflight
  /\ last' = "complete"
  /\ UNCHANGED << now, dirty >>
  /\ UNCHANGED studyVars
  /\ UNCHANGED viewVars

\* invalidateCache that also aborts the instance's request.
InvalidateCache_AbortsRequest(c) ==
  /\ hook[c].mounted
  /\ cache' = [cache EXCEPT ![hook[c].key] = NoEntry]
  /\ inflight' = AbortRef(inflight, c)
  /\ dirty' = dirty \cup {hook[c].key}
  /\ last' = "invalidate"
  /\ UNCHANGED << now, hook, stale >>
  /\ UNCHANGED studyVars
  /\ UNCHANGED viewVars

\* invalidateCache of instance c
InvalidateCache(c) ==
  /\ hook[c].mounted
  /\ cache' = [cache EXCEPT ![hook[c].key] = NoEntry]
  /\ dirty' = dirty \cup {hook[c].key}
  /\ last' = "invalidate"
  /\ UNCHANGED << now, hook, inflight, stale >>
  /\ UNCHANGED studyVars
  /\ UNCHANGED viewVars

\* Time passes between two tasks of the event loop.
Tick(t) ==
  /\ t > now
  /\ now' = t
  /\ last' = "tick"
  /\ UNCHANGED cacheVars
  /\ UNCHANGED studyVars
  /\ UNCHANGED viewVars

\* -------------------------------------------------------- StudyProvider

\* What dashboardFetcher / timetablesFetcher settle with: response.data, or
\* the rejection of axios.get, which on an aborted signal is a CanceledError.
AxiosOutcomes(x) ==
  IF x.aborted THEN {CANCELED_ERROR} ELSE {"v1", ERROR}

\* The rate limit with <= for <: an invocation exactly 2000 ms later is dropped.
FetchDashboardAndTimetables_Inclusive(lf) ==
  IF now - lf <= RATE_LIMIT
  THEN [accepted |-> FALSE, lastFetch |-> lastFetch, cache |-> cache, dirty |-> dirty]
  ELSE [accepted |-> TRUE, lastFetch |-> now,
        cache |-> [cache EXCEPT !["dashboard"] = NoEntry, !["timetables"] = NoEntry],
        dirty |-> dirty \cup {"dashboard", "timetables"}]

\* fetchDashboardAndTimetables as created by the render whose lastFetch was lf:
\* what it leaves in lastFetch, the cache and the invalidation history.
FetchDashboardAndTimetables(lf) ==
  IF now - lf < RATE_LIMIT
  THEN [accepted |-> FALSE, lastFetch |-> lastFetch, cache |-> cache, dirty |-> dirty]
  ELSE [accepted |-> TRUE, lastFetch |-> now,
        cache |-> [cache EXCEPT !["dashboard"] = NoEntry, !["timetables"] = NoEntry],
        dirty |-> dirty \cup {"dashboard", "timetables"}]

\* The slot a new call takes.
FreeSlot(i) ==
  /\ calls[i] = IdleCall
  /\ \A j \in CallIds : calls[j] = IdleCall => i <= j

\* StudyProvider's first render and its effects: the two useApiCache effects,
\* then fetchCurrentSession() and fetchCompletedSubjects().
ProviderMount ==
  /\ ~provider
  /\ NumPending = 0
  /\ LET f1 == FetchData([InitHook EXCEPT !.mounted = TRUE, !.key = "dashboard"],
                         inflight, stale, "h1", "dashboard")
         f2 == FetchData([InitHook EXCEPT !.mounted = TRUE, !.key = "timetables"],
                         f1.fl, f1.st, "h2", "timetables")
     IN /\ hook' = [hook EXCEPT !["h1"] = f1.h, !["h2"] = f2.h]
        /\ inflight' = f2.fl
        /\ stale' = f2.st
  /\ provider' = TRUE
  /\ currentInFlight' = currentInFlight + 1
  /\ completedInFlight' = completedInFlight + 1
  /\ dirty' = dirty \ {"dashboard", "timetables"}
  /\ last' = "mount"
  /\ UNCHANGED << now, cache, lastFetch, currentSession, isStudying, loadingNotes,
                  completedSubjects, notes, server, calls, notesInFlight >>
  /\ UNCHANGED result
  /\ UNCHANGED viewVars
  /\ UNCHANGED records

\* A consumer calls fetchDashboardAndTimetables of the latest render.
RefreshDashboardAndTimetables ==
  /\ provider
  /\ LET r == FetchDashboardAndTimetables(lastFetch)
     IN /\ lastFetch' = r.lastFetch
        /\ cache' = r.cache
        /\ dirty' = r.dirty
  /\ last' = "refresh"
  /\ UNCHANGED << now, hook, inflight, stale, currentSession, isStudying,
                  loadingNotes, completedSubjects, notes, provider, server, calls,
                  notesInFlight, completedInFlight, currentInFlight >>
  /\ result' = UNDEFINED
  /\ UNCHANGED viewVars
  /\ UNCHANGED records

FetchCurrentSession ==
  /\ provider
  /\ currentInFlight < MaxReads
  /\ currentInFlight' = currentInFlight + 1
  /\ last' = "current"
  /\ UNCHANGED << now, lastFetch, currentSession, isStudying, loadingNotes,
                  completedSubjects, notes, provider, server, calls, notesInFlight,
                  completedInFlight >>
  /\ UNCHANGED cacheVars
  /\ UNCHANGED result
  /\ UNCHANGED viewVars
  /\ UNCHANGED records

\* fetchCurrentSession with setIsStudying(true) for any stored session.
CurrentDone_StudyingIfPresent(ok) ==
  /\ currentInFlight > 0
  /\ currentInFlight' = currentInFlight - 1
  /\ IF ok /\ server.currentSubject # NONE
     THEN /\ currentSession' = server
          /\ isStudying' = TRUE
     ELSE UNCHANGED << currentSession, isStudying >>
  /\ last' = "currentDone"
  /\ UNCHANGED << now, lastFetch, loadingNotes, completedSubjects, notes, provider,
                  server, calls, notesInFlight, completedInFlight >>
  /\ UNCHANGED cacheVars
  /\ result' = UNDEFINED
  /\ UNCHANGED viewVars
  /\ UNCHANGED records

\* fetchCurrentSession after await axios.get(.../api/study/state)
CurrentDone(ok) ==
  /\ currentInFlight > 0
  /\ currentInFlight' = currentInFlight - 1
  /\ IF ok /\ server.currentSubject # NONE
     THEN /\ currentSession' = server
          /\ isStudying' = (server.status = "active")
     ELSE UNCHANGED << currentSession, isStudying >>
  /\ last' = "currentDone"
  /\ UNCHANGED << now, lastFetch, loadingNotes, completedSubjects, notes, provider,
                  server, calls, notesInFlight, completedInFlight >>
  /\ UNCHANGED cacheVars
  /\ result' = UNDEFINED
  /\ UNCHANGED viewVars
  /\ UNCHANGED records

FetchCompletedSubjects ==
  /\ provider
  /\ completedInFlight < MaxReads
  /\ completedInFlight' = completedInFlight + 1
  /\ last' = "completed"
  /\ UNCHANGED << now, lastFetch, currentSession, isStudying, loadingNotes,
                  completedSubjects, notes, provider, server, calls, notesInFlight,
                  currentInFlight >>
  /\ UNCHANGED cacheVars
  /\ UNCHANGED result
  /\ UNCHANGED viewVars
  /\ UNCHANGED records

\* fetchCompletedSubjects with a catch block that only logs, as the other
\* reads have: a failure keeps the list.
CompletedDone_KeepOnFailure(out) ==
  /\ completedInFlight > 0
  /\ completedInFlight' = completedInFlight - 1
  /\ completedSubjects' =
       IF out \in Lists THEN out ELSE IF out = ERROR THEN completedSubjects ELSE "[]"
  /\ last' = IF out = ERROR THEN "completedFail" ELSE "completedDone"
  /\ UNCHANGED << now, lastFetch, currentSession, isStudying, loadingNotes, notes,
                  provider, server, calls, notesInFlight, currentInFlight >>
  /\ UNCHANGED cacheVars
  /\ result' = UNDEFINED
  /\ UNCHANGED viewVars
  /\ UNCHANGED records

\* fetchCompletedSubjects after await axios.get(.../api/study/sessions/today):
\* res.data || [] on success, [] on failure
CompletedDone(out) ==
  /\ completedInFlight > 0
  /\ completedInFlight' = completedInFlight - 1
  /\ completedSubjects' = IF out \in Lists THEN out ELSE "[]"
  /\ last' = IF out = ERROR THEN "completedFail" ELSE "completedDone"
  /\ UNCHANGED << now, lastFetch, currentSession, isStudying, loadingNotes, notes,
                  provider, server, calls, notesInFlight, currentInFlight >>
  /\ UNCHANGED cacheVars
  /\ result' = UNDEFINED
  /\ UNCHANGED viewVars
  /\ UNCHANGED records

\* fetchNotes up to await axios.get
FetchNotes ==
  /\ provider
  /\ notesInFlight < MaxReads
  /\ loadingNotes' = TRUE
  /\ notesInFlight' = notesInFlight + 1
  /\ last' = "notes"
  /\ UNCHANGED << now, lastFetch, currentSession, isStudying, completedSubjects,
                  notes, provider, server, calls, completedInFlight, currentInFlight >>
  /\ UNCHANGED cacheVars
  /\ UNCHANGED result
  /\ UNCHANGED viewVars
  /\ UNCHANGED records

\* fetchNotes after the await: try, catch, finally
NotesDone(out) ==
  /\ notesInFlight > 0
  /\ notesInFlight' = notesInFlight - 1
  /\ notes' = IF out \in Lists THEN out ELSE notes
  /\ loadingNotes' = FALSE
  /\ last' = "notesDone"
  /\ UNCHANGED << now, lastFetch, currentSession, isStudying, completedSubjects,
                  provider, server, calls, completedInFlight, currentInFlight >>
  /\ UNCHANGED cacheVars
  /\ result' = UNDEFINED
  /\ UNCHANGED viewVars
  /\ UNCHANGED records

\* fetchSessionStats(period) up to await axios.get(.../sessions/stats)
FetchSessionStats(i) ==
  /\ provider
  /\ FreeSlot(i)
  /\ calls' = [calls EXCEPT ![i] = [IdleCall EXCEPT !.op = "stats", !.pc = "get"]]
  /\ last' = "stats"
  /\ UNCHANGED << now, lastFetch, currentSession, isStudying, loadingNotes,
                  completedSubjects, notes, provider, server, notesInFlight,
                  completedInFlight, currentInFlight, result, records >>
  /\ UNCHANGED cacheVars
  /\ UNCHANGED viewVars
  /\ UNCHANGED records

\* fetchSessionStats with a catch block that logs and rethrows.
StatsDone_Rethrow(i, ok) ==
  /\ calls[i].op = "stats"
  /\ calls' = [calls EXCEPT ![i] = IdleCall]
  /\ result' = IF ok THEN "stats" ELSE REJECTED
  /\ last' = IF ok THEN "statsOk" ELSE "statsFail"
  /\ UNCHANGED << now, lastFetch, currentSession, isStudying, loadingNotes,
                  completedSubjects, notes, provider, server, notesInFlight,
                  completedInFlight, currentInFlight >>
  /\ UNCHANGED cacheVars
  /\ UNCHANGED viewVars
  /\ UNCHANGED records

\* fetchSessionStats after the await: return res.data, or null from the catch
StatsDone(i, ok) ==
  /\ calls[i].op = "stats"
  /\ calls' = [calls EXCEPT ![i] = IdleCall]
  /\ result' = IF ok THEN "stats" ELSE NULL
  /\ last' = IF ok THEN "statsOk" ELSE "statsFail"
  /\ UNCHANGED << now, lastFetch, currentSession, isStudying, loadingNotes,
                  completedSubjects, notes, provider, server, notesInFlight,
                  completedInFlight, currentInFlight >>
  /\ UNCHANGED cacheVars
  /\ UNCHANGED viewVars
  /\ UNCHANGED records

\* startStudySession(subject) up to await axios.post(.../api/study/state)
StartStudySession(i, subject) ==
  /\ provider
  /\ FreeSlot(i)
  /\ calls' = [calls EXCEPT ![i] =
                 [IdleCall EXCEPT !.op = "start", !.pc = "post", !.subject = subject]]
  /\ last' = "start"
  /\ UNCHANGED << now, lastFetch, currentSession, isStudying, loadingNotes,
                  completedSubjects, notes, provider, server, notesInFlight,
                  completedInFlight, currentInFlight >>
  /\ UNCHANGED cacheVars
  /\ UNCHANGED result
  /\ UNCHANGED viewVars
  /\ UNCHANGED records

\* startStudySession with setIsStudying(true) moved out of the try block.
StartDone_StudyingAnyway(i, ok) ==
  /\ calls[i].op = "start"
  /\ IF ok
     THEN LET rec == [currentSubject |-> calls[i].subject, status |-> "active"]
          IN /\ server' = rec
             /\ currentSession' = rec
     ELSE UNCHANGED << server, currentSession >>
  /\ isStudying' = TRUE
  /\ calls' = [calls EXCEPT ![i] = IdleCall]
  /\ last' = IF ok THEN "startOk" ELSE "startFail"
  /\ UNCHANGED << now, lastFetch, loadingNotes, completedSubjects, notes, provider,
                  notesInFlight, completedInFlight, currentInFlight >>
  /\ UNCHANGED cacheVars
  /\ result' = UNDEFINED
  /\ UNCHANGED viewVars
  /\ records' = IF ok THEN 0 ELSE records

\* startStudySession after the await; the server answers with the stored record
StartDone(i, ok) ==
  /\ calls[i].op = "start"
  /\ IF ok
     THEN LET rec == [currentSubject |-> calls[i].subject, status |-> "active"]
          IN /\ server' = rec
             /\ currentSession' = rec
             /\ isStudying' = TRUE
     ELSE UNCHANGED << server, currentSession, isStudying >>
  /\ calls' = [calls EXCEPT ![i] = IdleCall]
  /\ last' = IF ok THEN "startOk" ELSE "startFail"
  /\ UNCHANGED << now, lastFetch, loadingNotes, completedSubjects, notes, provider,
                  notesInFlight, completedInFlight, currentInFlight >>
  /\ UNCHANGED cacheVars
  /\ result' = UNDEFINED
  /\ UNCHANGED viewVars
  /\ records' = IF ok THEN 0 ELSE records

\* pauseSession / resumeSession of the latest render, up to await axios.post:
\* the body is the closure's currentSession with the new status.
ToggleSession(i, op) ==
  /\ provider
  /\ FreeSlot(i)
  /\ calls' = [calls EXCEPT ![i] =
                 [IdleCall EXCEPT !.op = op, !.pc = "post", !.cs = currentSession]]
  /\ last' = op
  /\ UNCHANGED << now, lastFetch, currentSession, isStudying, loadingNotes,
                  completedSubjects, notes, provider, server, notesInFlight,
                  completedInFlight, currentInFlight >>
  /\ UNCHANGED cacheVars
  /\ UNCHANGED result
  /\ UNCHANGED viewVars
  /\ UNCHANGED records

PauseSession(i) == ToggleSession(i, "pause")

ResumeSession(i) == ToggleSession(i, "resume")

\* The continuation with setCurrentSession({...currentSession, status}) of the
\* closure in place of the functional update.
ToggleDone_FromClosure(i, op, status, ok) ==
  /\ calls[i].op = op
  /\ IF ok
     THEN /\ server' = [calls[i].cs EXCEPT !.status = status]
          /\ currentSession' = [calls[i].cs EXCEPT !.status = status]
          /\ isStudying' = (status = "active")
     ELSE UNCHANGED << server, currentSession, isStudying >>
  /\ calls' = [calls EXCEPT ![i] = IdleCall]
  /\ last' = IF ok THEN "toggleOk" ELSE "toggleFail"
  /\ UNCHANGED << now, lastFetch, loadingNotes, completedSubjects, notes, provider,
                  notesInFlight, completedInFlight, currentInFlight >>
  /\ UNCHANGED cacheVars
  /\ result' = UNDEFINED
  /\ UNCHANGED viewVars
  /\ UNCHANGED records

\* pauseSession / resumeSession after the await: the server stores the body,
\* setCurrentSession(prev => ({...prev, status})), setIsStudying(status is active)
ToggleDone(i, op, status, ok) ==
  /\ calls[i].op = op
  /\ IF ok
     THEN /\ server' = [calls[i].cs EXCEPT !.status = status]
          /\ currentSession' = [currentSession EXCEPT !.status = status]
          /\ isStudying' = (status = "active")
     ELSE UNCHANGED << server, currentSession, isStudying >>
  /\ calls' = [calls EXCEPT ![i] = IdleCall]
  /\ last' = IF ok THEN "toggleOk" ELSE "toggleFail"
  /\ UNCHANGED << now, lastFetch, loadingNotes, completedSubjects, notes, provider,
                  notesInFlight, completedInFlight, currentInFlight >>
  /\ UNCHANGED cacheVars
  /\ result' = UNDEFINED
  /\ UNCHANGED viewVars
  /\ UNCHANGED records

PauseDone(i, ok) == ToggleDone(i, "pause", "paused", ok)

ResumeDone(i, ok) == ToggleDone(i, "resume", "active", ok)

\* endSession(...) of the latest render, up to await axios.post(.../sessions);
\* currentSession.currentSubject throws inside the try when there is no session.
EndSession(i) ==
  /\ provider
  /\ FreeSlot(i)
  /\ IF currentSession = NoSession
     THEN /\ calls' = calls
          /\ last' = "endThrow"
     ELSE /\ calls' = [calls EXCEPT ![i] =
                 [IdleCall EXCEPT !.op = "end", !.pc = "create",
                                  !.cs = currentSession, !.lf = lastFetch]]
          /\ last' = "end"
  /\ UNCHANGED << now, lastFetch, currentSession, isStudying, loadingNotes,
                  completedSubjects, notes, provider, server, notesInFlight,
                  completedInFlight, currentInFlight >>
  /\ UNCHANGED cacheVars
  /\ result' = IF currentSession = NoSession THEN UNDEFINED ELSE result
  /\ UNCHANGED viewVars
  /\ UNCHANGED records

\* endSession with the create in a try block of its own: the delete is issued
\* whether or not the create succeeded.
EndCreateDone_DeleteAnyway(i, ok) ==
  /\ calls[i].op = "end"
  /\ calls[i].pc = "create"
  /\ calls' = [calls EXCEPT ![i] = [@ EXCEPT !.pc = "delete"]]
  /\ last' = IF ok THEN "endCreated" ELSE "endFail"
  /\ UNCHANGED << now, lastFetch, currentSession, isStudying, loadingNotes,
                  completedSubjects, notes, provider, server, notesInFlight,
                  completedInFlight, currentInFlight >>
  /\ UNCHANGED cacheVars
  /\ result' = result
  /\ UNCHANGED viewVars
  /\ ok => records < MaxRecords
  /\ records' = IF ok THEN records + 1 ELSE records

\* endSession after await axios.post(.../api/study/sessions)
EndCreateDone(i, ok) ==
  /\ calls[i].op = "end"
  /\ calls[i].pc = "create"
  /\ calls' = [calls EXCEPT ![i] = IF ok THEN [@ EXCEPT !.pc = "delete"] ELSE IdleCall]
  /\ last' = IF ok THEN "endCreated" ELSE "endFail"
  /\ UNCHANGED << now, lastFetch, currentSession, isStudying, loadingNotes,
                  completedSubjects, notes, provider, server, notesInFlight,
                  completedInFlight, currentInFlight >>
  /\ UNCHANGED cacheVars
  /\ result' = IF ok THEN result ELSE UNDEFINED
  /\ UNCHANGED viewVars
  /\ ok => records < MaxRecords
  /\ records' = IF ok THEN records + 1 ELSE records

\* endSession with the local clear in a finally block: it runs on failure too.
EndDeleteDone_ClearAlways(i, ok) ==
  /\ calls[i].op = "end"
  /\ calls[i].pc = "delete"
  /\ currentSession' = NoSession
  /\ isStudying' = FALSE
  /\ IF ok
     THEN /\ completedInFlight < MaxReads
          /\ server' = NoSession
          /\ LET r == FetchDashboardAndTimetables(calls[i].lf)
             IN /\ lastFetch' = r.lastFetch
                /\ cache' = r.cache
                /\ dirty' = r.dirty
          /\ completedInFlight' = completedInFlight + 1
     ELSE UNCHANGED << server, lastFetch, cache, dirty, completedInFlight >>
  /\ calls' = [calls EXCEPT ![i] = IdleCall]
  /\ last' = IF ok THEN "endOk" ELSE "endFail"
  /\ UNCHANGED << now, hook, inflight, stale, loadingNotes, completedSubjects, notes,
                  provider, notesInFlight, currentInFlight >>
  /\ result' = UNDEFINED
  /\ UNCHANGED viewVars
  /\ UNCHANGED records

\* endSession after await axios.delete(.../api/study/state): the local clear,
\* fetchDashboardAndTimetables() of the closure, fetchCompletedSubjects()
EndDeleteDone(i, ok) ==
  /\ calls[i].op = "end"
  /\ calls[i].pc = "delete"
  /\ IF ok
     THEN /\ completedInFlight < MaxReads
          /\ server' = NoSession
          /\ currentSession' = NoSession
          /\ isStudying' = FALSE
          /\ LET r == FetchDashboardAndTimetables(calls[i].lf)
             IN /\ lastFetch' = r.lastFetch
                /\ cache' = r.cache
                /\ dirty' = r.dirty
          /\ completedInFlight' = completedInFlight + 1
     ELSE UNCHANGED << server, currentSession, isStudying, lastFetch, cache, dirty,
                       completedInFlight >>
  /\ calls' = [calls EXCEPT ![i] = IdleCall]
  /\ last' = IF ok THEN "endOk" ELSE "endFail"
  /\ UNCHANGED << now, hook, inflight, stale, loadingNotes, completedSubjects, notes,
                  provider, notesInFlight, currentInFlight >>
  /\ result' = UNDEFINED
  /\ UNCHANGED viewVars
  /\ UNCHANGED records

\* ------------------------------------------------- the timetables effect

\* Array.prototype.find with t => t.isActive taking the last match.
Find_Last(l) ==
  IF \E i \in 1..Len(l) : l[i].isActive
  THEN l[CHOOSE i \in 1..Len(l) :
           l[i].isActive /\ \A j \in 1..Len(l) : l[j].isActive => j <= i]
  ELSE UndefinedTimetable

\* timetablesData.find(t => t.isActive): the elements are visited in index
\* order and the first one that passes is returned, undefined if none does.
RECURSIVE Find(_)
Find(l) ==
  IF l = << >> THEN UndefinedTimetable
  ELSE IF Head(l).isActive THEN Head(l) ELSE Find(Tail(l))

\* The timetables instance gets a result: setData(result), which schedules the
\* effect on [timetablesData].
TimetablesDelivered(l) ==
  /\ ~timetablesEffect
  /\ timetablesData' = l
  /\ timetablesEffect' = TRUE
  /\ last' = "timetables"
  /\ UNCHANGED << now, timetables, activeTimetable, notesViewVars, email, app >>
  /\ UNCHANGED cacheVars
  /\ UNCHANGED studyVars

\* useEffect(() => { if (timetablesData) setStudyData(...) }, [timetablesData])
TimetablesEffect ==
  /\ timetablesEffect
  /\ timetablesEffect' = FALSE
  /\ IF timetablesData # NoList
     THEN /\ timetables' = timetablesData
          /\ activeTimetable' = Find(timetablesData)
     ELSE UNCHANGED << timetables, activeTimetable >>
  /\ last' = "timetablesEffect"
  /\ UNCHANGED << now, timetablesData, notesViewVars, email, app >>
  /\ UNCHANGED cacheVars
  /\ UNCHANGED studyVars

TimetablesNext ==
  \/ \E l \in TimetableLists : TimetablesDelivered(l)
  \/ TimetablesEffect

TimetablesSpec == Init /\ [][TimetablesNext]_vars

\* ------------------------------------------------------------ NotesView

NotesGetsInFlight == notesGets[""] + notesGets["a"] + notesGets["b"]

\* fetchNotes(query) called with the loading of the render that created it:
\* the GETs in flight after the call.
NotesViewFetch(gets, loading, query) ==
  IF loading THEN gets ELSE [gets EXCEPT ![query] = @ + 1]

\* NotesView's first render and its two effects, which run one after the other
\* with the fetchNotes of that render (loading = false). useDebounce is not
\* part of these sources: on the first render it returns either the value it is
\* given (d = "") or a value that is not yet that one (d = NONE).
NotesViewMount(d) ==
  /\ ~notesView.mounted
  /\ LET g1 == NotesViewFetch(notesGets, FALSE, "")
         g2 == IF d # "" THEN g1 ELSE NotesViewFetch(g1, FALSE, d)
     IN /\ notesGets' = g2
        /\ notesView' = [notesView EXCEPT !.mounted = TRUE, !.loading = TRUE,
                                          !.debounced = d]
  /\ last' = "notesViewMount"
  /\ UNCHANGED << now, timetableVars, email, app >>
  /\ UNCHANGED cacheVars
  /\ UNCHANGED studyVars

\* The user types: setSearchTerm
NotesViewType(q) ==
  /\ notesView.mounted
  /\ q # notesView.search
  /\ notesView' = [notesView EXCEPT !.search = q]
  /\ last' = "notesViewType"
  /\ UNCHANGED << now, timetableVars, notesGets, email, app >>
  /\ UNCHANGED cacheVars
  /\ UNCHANGED studyVars

\* The debounced value catches up with searchTerm; the render it causes runs
\* the effect on [debouncedSearchTerm], which calls that render's fetchNotes.
NotesViewDebounce ==
  /\ notesView.mounted
  /\ notesView.debounced # notesView.search
  /\ notesView.loading \/ NotesGetsInFlight < MaxReads
  /\ notesGets' = NotesViewFetch(notesGets, notesView.loading, notesView.search)
  /\ notesView' = [notesView EXCEPT !.debounced = notesView.search,
                                    !.loading = TRUE]
  /\ last' = "notesViewDebounce"
  /\ UNCHANGED << now, timetableVars, email, app >>
  /\ UNCHANGED cacheVars
  /\ UNCHANGED studyVars

\* fetchNotes after its await: setNotes(sorted res.data), or the catch; finally
\* setLoading(false)
NotesViewDone(q, ok) ==
  /\ notesGets[q] > 0
  /\ notesGets' = [notesGets EXCEPT ![q] = @ - 1]
  /\ notesView' = [notesView EXCEPT !.notes = IF ok THEN q ELSE @,
                                    !.loading = FALSE]
  /\ last' = "notesViewDone"
  /\ UNCHANGED << now, timetableVars, email, app >>
  /\ UNCHANGED cacheVars
  /\ UNCHANGED studyVars

NotesViewNext ==
  \/ \E d \in {"", NONE} : NotesViewMount(d)
  \/ \E q \in Searches : NotesViewType(q)
  \/ NotesViewDebounce
  \/ \E q \in Searches, ok \in BOOLEAN : NotesViewDone(q, ok)

NotesViewSpec == Init /\ [][NotesViewNext]_vars

\* The timer of useDebounce fires once searchTerm has stayed put for its delay,
\* and every GET in flight is answered or fails.
NotesViewFairness ==
  /\ WF_vars(NotesViewDebounce)
  /\ WF_vars(\E q \in Searches, ok \in BOOLEAN : NotesViewDone(q, ok))

NotesViewLiveSpec == NotesViewSpec /\ NotesViewFairness

\* ---------------------------------------------------- EmailVerification

\* handleResendVerification without the test of countdown.
HandleResendVerification_NoCooldown ==
  /\ email.sent + email.inflight < MaxSends
  /\ IF email.isResending
     THEN email' = email
     ELSE email' = [email EXCEPT !.isResending = TRUE, !.inflight = @ + 1]
  /\ last' = "resend"
  /\ UNCHANGED << now, timetableVars, notesViewVars, app >>
  /\ UNCHANGED cacheVars
  /\ UNCHANGED studyVars

\* handleResendVerification up to its await. Each click is an event of its
\* own and React re-renders before the next one, so the countdown and
\* isResending of the handler's closure are the current ones.
HandleResendVerification ==
  /\ email.sent + email.inflight < MaxSends
  /\ IF email.countdown > 0 \/ email.isResending
     THEN email' = email
     ELSE email' = [email EXCEPT !.isResending = TRUE, !.inflight = @ + 1]
  /\ last' = "resend"
  /\ UNCHANGED << now, timetableVars, notesViewVars, app >>
  /\ UNCHANGED cacheVars
  /\ UNCHANGED studyVars

\* handleResendVerification after the await: setCountdown(60) on success, a
\* toast on failure, setIsResending(false) in both cases
ResendDone(ok) ==
  /\ email.inflight > 0
  /\ email' = [email EXCEPT !.inflight = @ - 1,
                            !.isResending = FALSE,
                            !.countdown = IF ok THEN COOLDOWN ELSE @,
                            !.sent = IF ok THEN @ + 1 ELSE @]
  /\ last' = IF ok THEN "resendOk" ELSE "resendFail"
  /\ UNCHANGED << now, timetableVars, notesViewVars, app >>
  /\ UNCHANGED cacheVars
  /\ UNCHANGED studyVars

\* The timer of the effect on [countdown] fires a second after it was set:
\* setCountdown(countdown - 1); the effect sets the next one while countdown > 0
CountdownTimer ==
  /\ email.countdown > 0
  /\ email' = [email EXCEPT !.countdown = @ - 1]
  /\ now' = now + SECOND
  /\ last' = "countdown"
  /\ UNCHANGED << timetableVars, notesViewVars, app >>
  /\ UNCHANGED cacheVars
  /\ UNCHANGED studyVars

EmailNext ==
  \/ HandleResendVerification
  \/ \E ok \in BOOLEAN : ResendDone(ok)
  \/ CountdownTimer

EmailSpec == Init /\ [][EmailNext]_vars

\* ------------------------------------------------------------------ App

\* The routes of the main app and of the auth screens, and their elements.
MainRoutes ==
  [p \in {"/", "/reading", "/todo", "/calendar", "/profile", "/about"} |->
     CASE p = "/" -> "Home"
       [] p = "/reading" -> "ReadingSpace"
       [] p = "/todo" -> "Todo"
       [] p = "/calendar" -> "Calendar"
       [] p = "/profile" -> "Profile"
       [] p = "/about" -> "About"]
AuthRoutes ==
  [p \in {"/login", "/register", "/about"} |->
     CASE p = "/login" -> "Login"
       [] p = "/register" -> "Register"
       [] p = "/about" -> "About"]
\* the locations tried: every route, and two that no route names
Paths == DOMAIN MainRoutes \cup DOMAIN AuthRoutes \cup {"/settings", "/verify"}
\* user.emailVerified: a boolean, or missing from the user object
EmailVerifiedValues == {"true", "false", UNDEFINED}

\* Only an emailVerified of true counts as verified.
IsEmailVerified_Strict(user, emailVerified) == user /\ emailVerified = "true"

\* user?.emailVerified !== false
IsEmailVerified(user, emailVerified) == ~(user /\ emailVerified = "false")

\* What App renders at a location: an element, or a Navigate to another one.
Render(loading, user, emailVerified, path) ==
  IF loading THEN "LoadingScreen"
  ELSE IF user
  THEN IF ~IsEmailVerified(user, emailVerified) THEN "EmailVerification"
       ELSE IF path \in DOMAIN MainRoutes THEN MainRoutes[path] ELSE "Navigate /"
  ELSE IF path \in DOMAIN AuthRoutes THEN AuthRoutes[path] ELSE "Navigate /login"

\* useAuth delivers a new value: App renders again at the same location.
AuthChange(loading, user, emailVerified) ==
  /\ app.element \notin {"Navigate /", "Navigate /login"}
  /\ app' = [app EXCEPT !.loading = loading, !.user = user,
                        !.emailVerified = IF user THEN emailVerified ELSE UNDEFINED,
                        !.element = Render(loading, user,
                                           IF user THEN emailVerified ELSE UNDEFINED,
                                           app.path)]
  /\ last' = "auth"
  /\ UNCHANGED << now, timetableVars, notesViewVars, email >>
  /\ UNCHANGED cacheVars
  /\ UNCHANGED studyVars

\* The location changes (a link, the address bar): App renders at path.
Route(path) ==
  /\ app.element \notin {"Navigate /", "Navigate /login"}
  /\ app' = [app EXCEPT !.path = path,
                        !.element = Render(app.loading, app.user, app.emailVerified,
                                           path)]
  /\ last' = "route"
  /\ UNCHANGED << now, timetableVars, notesViewVars, email >>
  /\ UNCHANGED cacheVars
  /\ UNCHANGED studyVars

\* <Navigate to=... replace />: the location is replaced and App renders there.
Navigate ==
  /\ app.element \in {"Navigate /", "Navigate /login"}
  /\ LET to == IF app.element = "Navigate /" THEN "/" ELSE "/login"
     IN app' = [app EXCEPT !.path = to,
                           !.element = Render(app.loading, app.user,
                                              app.emailVerified, to)]
  /\ last' = "navigate"
  /\ UNCHANGED << now, timetableVars, notesViewVars, email >>
  /\ UNCHANGED cacheVars
  /\ UNCHANGED studyVars

AppNext ==
  \/ \E l \in BOOLEAN, u \in BOOLEAN, e \in EmailVerifiedValues : AuthChange(l, u, e)
  \/ \E p \in Paths : Route(p)
  \/ Navigate

AppSpec == Init /\ [][AppNext]_vars

\* ------------------------------------------------------- specifications

Next ==
  \/ \E c \in Consumers : \E k \in KeysOf(c) : Mount(c, k)
  \/ \E c \in Consumers : \E k \in KeysOf(c) : Rerun(c, k)
  \/ \E c \in Consumers : Unmount(c)
  \/ \E x \in Requests : \E out \in Outcomes(x) : Complete(x, out)
  \/ \E c \in Consumers : InvalidateCache(c)
  \/ \E t \in CacheInstants : Tick(t)

Spec == Init /\ [][Next]_vars

\* useApiCache given a fetcher that hands its signal to axios.get, as
\* dashboardFetcher and timetablesFetcher do, by a component whose key changes.
AxiosNext ==
  \/ \E k \in Keys : Mount("h1", k)
  \/ \E k \in Keys : Rerun("h1", k)
  \/ Unmount("h1")
  \/ \E x \in Requests : \E out \in AxiosOutcomes(x) : Complete(x, out)
  \/ InvalidateCache("h1")
  \/ \E t \in CacheInstants : Tick(t)

AxiosSpec == Init /\ [][AxiosNext]_vars

\* The coordinator's sessions and refresh.
StudyNext ==
  \/ ProviderMount
  \/ \E x \in Requests : \E out \in AxiosOutcomes(x) : Complete(x, out)
  \/ \E t \in StudyInstants : Tick(t)
  \/ RefreshDashboardAndTimetables
  \/ \E ok \in BOOLEAN : CurrentDone(ok)
  \/ \E out \in Lists \cup {NULL, ERROR} : CompletedDone(out)
  \/ \E i \in CallIds, subject \in {"math"} : StartStudySession(i, subject)
  \/ \E i \in CallIds, ok \in BOOLEAN : StartDone(i, ok)
  \/ \E i \in CallIds : EndSession(i)
  \/ \E i \in CallIds, ok \in BOOLEAN : EndCreateDone(i, ok)
  \/ \E i \in CallIds, ok \in BOOLEAN : EndDeleteDone(i, ok)

StudySpec == Init /\ [][StudyNext]_vars

\* The coordinator with one session call at a time, and the tasks the event
\* loop is bound to run: a pending request settles, and its continuation runs.
RefreshNext ==
  \/ ProviderMount
  \/ \E x \in Requests : \E out \in AxiosOutcomes(x) : Complete(x, out)
  \/ \E t \in StudyInstants : Tick(t)
  \/ RefreshDashboardAndTimetables
  \/ \E ok \in BOOLEAN : CurrentDone(ok)
  \/ \E out \in Lists \cup {ERROR} : CompletedDone(out)
  \/ StartStudySession(1, "math")
  \/ \E ok \in BOOLEAN : StartDone(1, ok)
  \/ EndSession(1)
  \/ \E ok \in BOOLEAN : EndCreateDone(1, ok)
  \/ \E ok \in BOOLEAN : EndDeleteDone(1, ok)

RefreshFairness ==
  /\ WF_vars(\E x \in Requests : \E out \in AxiosOutcomes(x) : Complete(x, out))
  /\ WF_vars(\E ok \in BOOLEAN : CurrentDone(ok))
  /\ WF_vars(\E out \in Lists \cup {ERROR} : CompletedDone(out))
  /\ WF_vars(\E ok \in BOOLEAN : StartDone(1, ok))
  /\ WF_vars(\E ok \in BOOLEAN : EndCreateDone(1, ok))
  /\ WF_vars(\E ok \in BOOLEAN : EndDeleteDone(1, ok))

RefreshSpec == Init /\ [][RefreshNext]_vars /\ RefreshFairness

\* The coordinator's session operations.
SessionNext ==
  \/ ProviderMount
  \/ FetchCurrentSession
  \/ \E ok \in BOOLEAN : CurrentDone(ok)
  \/ \E out \in {"list", ERROR} : CompletedDone(out)
  \/ \E i \in CallIds : StartStudySession(i, "math")
  \/ \E i \in CallIds, ok \in BOOLEAN : StartDone(i, ok)
  \/ \E i \in CallIds : PauseSession(i)
  \/ \E i \in CallIds, ok \in BOOLEAN : PauseDone(i, ok)
  \/ \E i \in CallIds : ResumeSession(i)
  \/ \E i \in CallIds, ok \in BOOLEAN : ResumeDone(i, ok)
  \/ \E i \in CallIds : EndSession(i)
  \/ \E i \in CallIds, ok \in BOOLEAN : EndCreateDone(i, ok)
  \/ \E i \in CallIds, ok \in BOOLEAN : EndDeleteDone(i, ok)

SessionSpec == Init /\ [][SessionNext]_vars

\* Every operation of the coordinator, one session call at a time.
OpsNext ==
  \/ ProviderMount
  \/ FetchCurrentSession
  \/ \E ok \in BOOLEAN : CurrentDone(ok)
  \/ FetchCompletedSubjects
  \/ \E out \in {"list", ERROR} : CompletedDone(out)
  \/ FetchNotes
  \/ \E out \in {"list", ERROR} : NotesDone(out)
  \/ FetchSessionStats(1)
  \/ \E ok \in BOOLEAN : StatsDone(1, ok)
  \/ StartStudySession(1, "math")
  \/ \E ok \in BOOLEAN : StartDone(1, ok)
  \/ PauseSession(1)
  \/ \E ok \in BOOLEAN : PauseDone(1, ok)
  \/ ResumeSession(1)
  \/ \E ok \in BOOLEAN : ResumeDone(1, ok)
  \/ EndSession(1)
  \/ \E ok \in BOOLEAN : EndCreateDone(1, ok)
  \/ \E ok \in BOOLEAN : EndDeleteDone(1, ok)

OpsSpec == Init /\ [][OpsNext]_vars

\* The coordinator's uncached reads.
ReadsNext ==
  \/ ProviderMount
  \/ FetchCurrentSession
  \/ \E ok \in BOOLEAN : CurrentDone(ok)
  \/ FetchCompletedSubjects
  \/ \E out \in Lists \cup {NULL, ERROR} : CompletedDone(out)
  \/ FetchNotes
  \/ \E out \in Lists \cup {ERROR} : NotesDone(out)

ReadsSpec == Init /\ [][ReadsNext]_vars

\* ------------------------------------------------------------- claims

\* A read of k by instance c: the effect of its first render or a re-run.
Read(c, k) == Mount(c, k) \/ Rerun(c, k)

\* C1: a read of K while the cache holds an entry for K younger than
\* CACHE_DURATION invokes no fetcher and leaves the instance with the cached
\* value and loading = false.
C1_LiveReadServedFromCache ==
  [][\A c \in Consumers, k \in Keys :
       (/\ last' \in {"hit", "miss"}
        /\ cache[k] # NoEntry
        /\ now - cache[k].timestamp < CACHE_DURATION
        /\ Read(c, k))
       => /\ NumPending' = NumPending
          /\ hook'[c].data = cache[k].data
          /\ hook'[c].loading = FALSE]_vars

\* A read was just served from an entry that is not fresh from this instant.
C1_Witness ==
  /\ last = "hit"
  /\ \E c \in Consumers :
       /\ hook[c].mounted
       /\ hook[c].data \in Values
       /\ hook[c].data = cache[hook[c].key].data
       /\ ~hook[c].loading
       /\ now - cache[hook[c].key].timestamp = CACHE_DURATION - 1

\* C2: after invalidate(K) the next read of K invokes the fetcher, whatever
\* happened between the two.
C2_ReadAfterInvalidateFetches ==
  [][\A c \in Consumers, k \in Keys :
       (last' \in {"hit", "miss"} /\ k \in dirty /\ Read(c, k))
       => NumPending' = NumPending + 1]_vars

\* C3: the completion of an invocation that was aborted or superseded writes
\* neither the cache nor its instance's data.
C3_SupersededCompletionNotApplied ==
  [][\A x \in Requests : \A out \in Outcomes(x) :
       (last' = "complete" /\ (x.aborted \/ ~x.cur) /\ Complete(x, out))
       => /\ cache' = cache
          /\ x.owner # NONE => hook'[x.owner].data = hook[x.owner].data]_vars

\* C8: at most one invocation per key is in flight and not aborted, over all
\* instances.
C8_OneInFlightPerKey ==
  \A k \in Keys :
    Cardinality({c \in Consumers : inflight[c].key = k /\ ~inflight[c].aborted}) <= 1

\* C9: the completion of an invocation that rejects with an AbortError changes
\* neither any instance's data, loading or error nor the cache.
C9_CancelledCompletionChangesNothing ==
  [][\A x \in Requests :
       (last' = "complete" /\ x.aborted /\ Complete(x, ABORT_ERROR))
       => (hook' = hook /\ cache' = cache)]_vars

\* C10: while an instance has an invocation in flight that was not aborted,
\* its loading flag is true.
C10_LoadingWhileInFlight ==
  \A c \in Consumers :
    (hook[c].mounted /\ inflight[c] # NoReq /\ ~inflight[c].aborted) => hook[c].loading

\* An invocation of fetchDashboardAndTimetables: a consumer's call, or the one
\* endSession makes after its delete succeeded.
RefreshInvoked ==
  /\ last' \in {"refresh", "endOk"}
  /\ RefreshDashboardAndTimetables \/ \E i \in CallIds : EndDeleteDone(i, TRUE)

\* C4: an invocation of fetchDashboardAndTimetables less than RATE_LIMIT after
\* the last accepted one invalidates nothing and leaves lastFetch alone.
C4_RefreshInsideWindowIsNoOp ==
  [][(RefreshInvoked /\ now - lastFetch < RATE_LIMIT)
       => (cache' = cache /\ lastFetch' = lastFetch)]_vars

\* C5: an invocation of fetchDashboardAndTimetables RATE_LIMIT or more after
\* the last accepted one (or the first ever) removes both cache entries and
\* sets lastFetch to the current time.
C5_RefreshOutsideWindowAccepted ==
  [][(RefreshInvoked /\ now - lastFetch >= RATE_LIMIT)
       => /\ cache'["dashboard"] = NoEntry
          /\ cache'["timetables"] = NoEntry
          /\ lastFetch' = now]_vars

\* An accepted invocation has just removed entries that had been fetched.
C5_Witness ==
  /\ last \in {"refresh", "endOk"}
  /\ lastFetch = now
  /\ hook["h1"].data \in Values
  /\ hook["h2"].data \in Values
  /\ cache = [k \in Keys |-> NoEntry]

\* C6: when endSession's create or delete fails, no step of that call clears
\* currentSession or isStudying, invalidates a cache entry, touches lastFetch
\* or calls fetchCompletedSubjects.
C6_EndSessionFailureKeepsState ==
  [][\A i \in CallIds :
       (/\ last' \in {"end", "endThrow", "endCreated", "endFail"}
        /\ \/ EndSession(i)
           \/ EndCreateDone(i, TRUE)
           \/ EndCreateDone(i, FALSE)
           \/ EndDeleteDone(i, FALSE))
       => UNCHANGED << currentSession, isStudying, cache, lastFetch,
                       completedInFlight >>]_vars

\* An endSession has just failed and the session is still there.
C6_Witness ==
  /\ last = "endFail"
  /\ currentSession # NoSession
  /\ isStudying
  /\ cache["dashboard"] # NoEntry

\* C7: while a fetchNotes call is in flight loadingNotes is true, and it is
\* false once no call is in flight.
C7_LoadingNotesWhileInFlight ==
  /\ notesInFlight > 0 => loadingNotes
  /\ (provider /\ notesInFlight = 0) => ~loadingNotes

\* C11: no instance's error is ever the rejection of a fetch that ended because
\* its signal was aborted, whether the fetcher rejects with an AbortError or
\* with what axios.get rejects with on an aborted signal.
C11_CancellationNeverSurfaced ==
  \A c \in Consumers : hook[c].error \notin {ABORT_ERROR, CANCELED_ERROR}

C13_EntryWrittenOnlyBySuccess ==
  [][/\ \A k \in Keys :
          (cache'[k] # cache[k] /\ cache'[k] # NoEntry)
          => /\ last' = "complete"
             /\ cache'[k].timestamp = now
             /\ \E x \in Requests : x.key = k /\ Complete(x, cache'[k].data)
     /\ \A x \in Requests : \A v \in Values :
          (last' = "complete" /\ Complete(x, v))
          => /\ cache'[x.key] = [data |-> v, timestamp |-> now]
             /\ \A k \in Keys \ {x.key} : cache'[k] = cache[k]
             /\ x.owner # NONE =>
                  /\ hook'[x.owner].data = v
                  /\ hook'[x.owner].loading = FALSE
                  /\ hook'[x.owner].error = NULL]_vars

\* C14: after a read served from a live cache entry the instance's error is
\* null, whatever its earlier reads ended with.
C14_CacheHitClearsError ==
  [][\A c \in Consumers, k \in Keys :
       (last' = "hit" /\ Read(c, k)) => hook'[c].error = NULL]_vars

\* C15: invalidateCache of an instance with key K removes the entry of K and
\* changes nothing else: no request is aborted or dropped, no instance's data,
\* loading or error changes, and the entries of the other keys stay.
C15_InvalidateOnlyRemovesEntry ==
  [][\A c \in Consumers :
       (last' = "invalidate" /\ InvalidateCache(c))
       => /\ cache'[hook[c].key] = NoEntry
          /\ \A k \in Keys \ {hook[c].key} : cache'[k] = cache[k]
          /\ hook' = hook
          /\ inflight' = inflight
          /\ stale' = stale]_vars

\* An entry that had been fetched has just been invalidated while its instance
\* has a request in flight and the other key has an entry.
C15_Witness ==
  /\ last = "invalidate"
  /\ hook["h2"].data \in Values
  /\ cache["dashboard"] = NoEntry
  /\ cache["timetables"] # NoEntry
  /\ inflight["h2"] = [key |-> "dashboard", aborted |-> FALSE]
  /\ hook["h2"].loading

\* C16: while the provider is mounted, a key invalidated by an accepted
\* fetchDashboardAndTimetables is eventually read again, the read invoking the
\* fetcher.
C16_RefreshLeadsToRefetch ==
  \A k \in Keys : (provider /\ k \in dirty) ~> (k \notin dirty)

\* The upserts of startStudySession awaiting an answer.
PendingStarts == Cardinality({i \in CallIds : calls[i].op = "start"})

\* C17: when the upsert of startStudySession(subject) succeeds, currentSession
\* is the record the server stored for that subject and isStudying is true;
\* when it fails, currentSession and isStudying are unchanged and the call
\* ends without issuing another upsert.
C17_StartSessionOutcome ==
  [][\A i \in CallIds :
       /\ (last' = "startOk" /\ StartDone(i, TRUE))
          => /\ currentSession' = server'
             /\ currentSession' = [currentSubject |-> calls[i].subject,
                                   status |-> "active"]
             /\ isStudying' = TRUE
       /\ (last' = "startFail" /\ StartDone(i, FALSE))
          => /\ UNCHANGED << currentSession, isStudying, server >>
             /\ PendingStarts' = PendingStarts - 1]_vars

\* A start has just failed while an earlier session is being studied: the
\* earlier session is still there.
C17_Witness ==
  /\ last = "startFail"
  /\ currentSession = [currentSubject |-> "math", status |-> "active"]
  /\ isStudying
  /\ PendingStarts = 0

\* C18: endSession issues its delete only once its create has succeeded, and
\* the session is cleared only by the continuation of a successful delete,
\* which clears currentSession and isStudying, calls the closure's
\* fetchDashboardAndTimetables and issues fetchCompletedSubjects.
C18_EndSessionStepsInOrder ==
  [][/\ \A i \in CallIds :
          (calls'[i].pc = "delete" /\ calls[i].pc # "delete")
          => (last' = "endCreated" /\ EndCreateDone(i, TRUE))
     /\ (currentSession # NoSession /\ currentSession' = NoSession)
          => /\ last' = "endOk"
             /\ \E i \in CallIds : calls[i].pc = "delete" /\ EndDeleteDone(i, TRUE)
     /\ \A i \in CallIds :
          (last' = "endOk" /\ EndDeleteDone(i, TRUE))
          => /\ calls[i].pc = "delete"
             /\ server' = NoSession
             /\ currentSession' = NoSession
             /\ isStudying' = FALSE
             /\ lastFetch' = FetchDashboardAndTimetables(calls[i].lf).lastFetch
             /\ cache' = FetchDashboardAndTimetables(calls[i].lf).cache
             /\ completedInFlight' = completedInFlight + 1]_vars

\* An endSession has just gone through all its steps: the session is cleared
\* here and on the server, the refresh was accepted and the completed
\* subjects are being fetched.
C18_Witness ==
  /\ last = "endOk"
  /\ currentSession = NoSession
  /\ server = NoSession
  /\ ~isStudying
  /\ lastFetch = now
  /\ dirty = Keys
  /\ completedInFlight > 0

\* C19: with a session present, a successful pauseSession leaves
\* currentSession with status paused and isStudying false, a successful
\* resumeSession with status active and isStudying true, the rest of the record
\* as it was; a failed upsert leaves currentSession and isStudying unchanged.
C19_PauseResumeToggleStatus ==
  [][\A i \in CallIds :
       /\ (last' = "toggleOk" /\ currentSession # NoSession /\ PauseDone(i, TRUE))
          => /\ currentSession' = [currentSession EXCEPT !.status = "paused"]
             /\ isStudying' = FALSE
       /\ (last' = "toggleOk" /\ currentSession # NoSession /\ ResumeDone(i, TRUE))
          => /\ currentSession' = [currentSession EXCEPT !.status = "active"]
             /\ isStudying' = TRUE
       /\ (last' = "toggleFail" /\ (PauseDone(i, FALSE) \/ ResumeDone(i, FALSE)))
          => UNCHANGED << currentSession, isStudying >>]_vars

\* A session that was being studied has just been paused.
C19_Witness ==
  /\ last = "toggleOk"
  /\ currentSession = [currentSubject |-> "math", status |-> "paused"]
  /\ server = currentSession
  /\ ~isStudying

\* C20: when fetchCompletedSubjects fails, completedSubjects becomes the empty
\* list and the rest of studyData is unchanged; when it succeeds,
\* completedSubjects becomes the returned list, the empty list for an empty
\* response body.
C20_CompletedSubjectsOutcome ==
  [][/\ (last' = "completedFail" /\ CompletedDone(ERROR))
          => /\ completedSubjects' = "[]"
             /\ notes' = notes
             /\ hook' = hook
     /\ \A l \in Lists :
          (last' = "completedDone" /\ CompletedDone(l))
          => (completedSubjects' = l /\ notes' = notes /\ hook' = hook)
     /\ (last' = "completedDone" /\ CompletedDone(NULL))
          => (completedSubjects' = "[]" /\ notes' = notes /\ hook' = hook)]_vars

\* fetchCompletedSubjects has just failed: the list is empty and the notes
\* fetched before are still there.
C20_Witness ==
  /\ last = "completedFail"
  /\ completedSubjects = "[]"
  /\ notes = "list"
  /\ completedInFlight = 0

\* C21: no operation of the coordinator settles by rejecting, whichever of its
\* requests fails, and a failed fetchSessionStats yields null and changes no
\* state of the provider.
C21_NoFailurePropagates ==
  [][/\ result' # REJECTED
     /\ \A i \in CallIds :
          (last' = "statsFail" /\ StatsDone(i, FALSE))
          => /\ result' = NULL
             /\ UNCHANGED << lastFetch, currentSession, isStudying, loadingNotes,
                             completedSubjects, notes, cache, hook >>]_vars

\* fetchSessionStats has just failed during a session, after fetched notes.
C21_Witness ==
  /\ last = "statsFail"
  /\ result = NULL
  /\ currentSession # NoSession
  /\ notes = "list"

\* C22: a read of K that finds an entry CACHE_DURATION old or older invokes
\* the fetcher for K, and when a fetch for K resolves over such an entry the
\* entry becomes the new value with the current time as timestamp.
C22_ExpiredEntryRefetched ==
  [][\A k \in Keys :
       (cache[k] # NoEntry /\ now - cache[k].timestamp >= CACHE_DURATION)
       => /\ \A c \in Consumers :
               (last' \in {"hit", "miss"} /\ Read(c, k))
               => /\ last' = "miss"
                  /\ NumPending' = NumPending + 1
                  /\ inflight'[c] = [key |-> k, aborted |-> FALSE]
          /\ \A x \in Requests : \A v \in Values :
               (last' = "complete" /\ x.key = k /\ Complete(x, v))
               => cache'[k] = [data |-> v, timestamp |-> now]]_vars

\* A read has just found an entry exactly CACHE_DURATION old and issued a
\* request.
C22_Witness ==
  /\ last = "miss"
  /\ \E c \in Consumers :
       /\ hook[c].mounted
       /\ inflight[c] = [key |-> hook[c].key, aborted |-> FALSE]
       /\ hook[c].loading
       /\ cache[hook[c].key] # NoEntry
       /\ now - cache[hook[c].key].timestamp = CACHE_DURATION

\* C23: once the effect has run on a list the timetables read delivered,
\* studyData.timetables is that list and studyData.activeTimetable is its
\* element of least index whose isActive is set, undefined if there is none.
C23_ActiveTimetableIsFirstActive ==
  (~timetablesEffect /\ timetablesData # NoList)
  => /\ timetables = timetablesData
     /\ LET l == timetablesData
            act == {i \in 1..Len(l) : l[i].isActive}
        IN IF act = {}
           THEN activeTimetable = UndefinedTimetable
           ELSE activeTimetable = l[CHOOSE i \in act : \A j \in act : i <= j]

\* The effect has run on a list whose first timetable is not active and whose
\* next two, different ones, both are: the first of these is the active one.
C23_Witness ==
  /\ ~timetablesEffect
  /\ timetablesData # NoList
  /\ Len(timetablesData) = 3
  /\ ~timetablesData[1].isActive
  /\ timetablesData[2].isActive
  /\ timetablesData[3].isActive
  /\ timetablesData[2].id # timetablesData[3].id
  /\ timetables = timetablesData
  /\ activeTimetable = timetablesData[2]

\* C24: at most one GET of /api/study/notes issued by NotesView is in flight.
C24_OneNotesGetInFlight == NotesGetsInFlight <= 1

\* C25: a resend request is issued only with countdown at 0 and no resend in
\* flight; a resend that succeeds sets countdown to 60 and one that fails
\* leaves it; otherwise countdown only goes down, by 1 with each second, and
\* never below 0.
C25_ResendCooldown ==
  [][/\ email'.inflight > email.inflight
          => (email.countdown = 0 /\ email.inflight = 0 /\ ~email.isResending)
     /\ (last' = "resendOk" /\ ResendDone(TRUE)) => email'.countdown = COOLDOWN
     /\ (last' = "resendFail" /\ ResendDone(FALSE))
          => email'.countdown = email.countdown
     /\ (email'.countdown # email.countdown /\ last' # "resendOk")
          => /\ email'.countdown = email.countdown - 1
             /\ now' = now + SECOND
     /\ email'.countdown >= 0
     /\ email'.inflight <= 1]_vars

\* A click in the last second of the cooldown has just been ignored.
C25_Witness ==
  /\ last = "resend"
  /\ email.countdown = 1
  /\ email.sent = 1
  /\ email.inflight = 0
  /\ ~email.isResending
  /\ now = StartTime + (COOLDOWN - 1) * SECOND

MainPages == {"Home", "ReadingSpace", "Todo", "Calendar", "Profile"}

\* C26: while auth is loading App shows the loading screen; a user whose
\* emailVerified is false gets EmailVerification at every location; without a
\* user /login, /register and /about render and every other location
\* redirects to /login; a user whose emailVerified is not false gets the page
\* of each main route and a redirect to / anywhere else; a main page is shown
\* only to a user whose emailVerified is not false, auth not loading.
C26_RoutingGate ==
  /\ app.loading => app.element = "LoadingScreen"
  /\ (~app.loading /\ app.user /\ app.emailVerified = "false")
       => app.element = "EmailVerification"
  /\ (~app.loading /\ ~app.user)
       => app.element =
            CASE app.path = "/login" -> "Login"
              [] app.path = "/register" -> "Register"
              [] app.path = "/about" -> "About"
              [] OTHER -> "Navigate /login"
  /\ (~app.loading /\ app.user /\ app.emailVerified # "false")
       => app.element =
            CASE app.path = "/" -> "Home"
              [] app.path = "/reading" -> "ReadingSpace"
              [] app.path = "/todo" -> "Todo"
              [] app.path = "/calendar" -> "Calendar"
              [] app.path = "/profile" -> "Profile"
              [] app.path = "/about" -> "About"
              [] OTHER -> "Navigate /"
  /\ app.element \in MainPages
       => (~app.loading /\ app.user /\ app.emailVerified # "false")

\* A user whose record has no emailVerified has just been redirected to the
\* home page.
C26_Witness ==
  /\ last = "navigate"
  /\ app.user
  /\ app.emailVerified = UNDEFINED
  /\ app.path = "/"
  /\ app.element = "Home"

\* C27: isStudying is true exactly when there is a current session and its
\* status is active.
C27_StudyingIffActiveSession ==
  isStudying <=> (currentSession # NoSession /\ currentSession.status = "active")

\* A resume has just succeeded on a session and no call is in flight: the
\* session is active and being studied.
C27_Witness ==
  /\ last = "toggleOk"
  /\ currentSession = [currentSubject |-> "math", status |-> "active"]
  /\ server = currentSession
  /\ isStudying
  /\ \A i \in CallIds : calls[i] = IdleCall

\* C28: currentSession is null or a record that carries a subject: no pause or
\* resume creates a session where there is none.
C28_SessionCarriesSubject ==
  currentSession = NoSession \/ currentSession.currentSubject # NONE

\* C29: at most one completed-session record is created for a started
\* session, however endSession is called.
C29_OneRecordPerSession == records <= 1

\* C30: the data of an instance is null or was fetched, or read from the
\* cache, for the key the instance is reading now.
C30_DataBelongsToKey ==
  \A c \in Consumers :
    hook[c].mounted => (hook[c].data = NULL \/ hook[c].of = hook[c].key)


\* C31: a search term that has just become the debounced one is fetched, at
\* once or later, unless the user changes the search box again: a GET of
\* /api/study/notes for it gets in flight.
C31_LatestSearchFetched ==
  \A q \in Searches :
    (/\ notesView.mounted
     /\ last = "notesViewDebounce"
     /\ notesView.debounced = q)
      ~> (notesGets[q] > 0 \/ notesView.search # q)

====
